---- MODULE Spec2Model ----
(***************************************************************************)
(* Amass coordination core: the EventBus (core package) and the            *)
(* NameService (amass package).                                            *)
(*                                                                         *)
(* Strings are sequences of tokens; the token "." is the label separator,  *)
(* every other token stands for a run of non-dot characters.               *)
(***************************************************************************)
EXTENDS Integers, Sequences, FiniteSets, TLC

\* ------------------------------------------------------------------ bounds
\* Publish calls made by the environment.
MaxPub == 2
\* Subscribe and Unsubscribe calls made by the environment.
MaxOps == 3
\* Capacity of the bus semaphore (NewSimpleSemaphore(1000000)), scaled down
\* so that the bus specification exhausts it.
MaxSlots == 1
\* Calls of a service's OnStart.
MaxStarts == 2
\* Requests put into a service's inboxes.
MaxReq == 2
\* Pause signals, and resume signals, sent to a service.
MaxSignals == 1

\* ------------------------------------------------------- program constants
\* processRequests: maxIdx := 7
maxIdx == 7
\* processRequests: delays := []int{10, 25, 50, 75, 100, 150, 250, 500}
delays == <<10, 25, 50, 75, 100, 150, 250, 500>>

\* Topics, callbacks and argument values of the bus specification. They are
\* interchangeable names: a call that uses a name no earlier call used
\* takes the first unused one of its list.
TopicNames == <<"T1", "T2">>
CallbackNames == <<"cb1", "cb2">>
ArgNames == <<"a1", "a2">>
BusCallbacks == {CallbackNames[i] : i \in 1..Len(CallbackNames)}

\* Request tag types.
AXFR == "axfr"
CERT == "cert"
SCRAPE == "scrape"

\* Request Pub/Sub topics.
NewNameTopic == "amass:newname"
NewSubdomainTopic == "amass:newsub"
ResolveNameTopic == "amass:resolve"
NameResolvedTopic == "amass:resolved"
OutputTopic == "amass:output"
NewWhoisTopic == "amass:whoisinfo"

VARIABLES
    \* EventBus fields
    topics,      \* eb.topics: topic -> registered callbacks, in order
    queue,       \* eb.queue: the pending pubReqs, oldest first
    max,         \* eb.max: semaphore slots acquired
    maxCap,      \* eb.max: the capacity it was made with
    done,        \* eb.done is closed
    \* EventBus.processRequests (the dispatch goroutine)
    busPc,       \* "select" | "sleep" | "lock" | "acquire" | "stopped"
    curIdx,      \* index into delays
    p,           \* <<the pubReq just dequeued>>, or <<>>
    callbacks,   \* the snapshot taken under the lock
    \* EventBus.executeCallbacks goroutines, keyed by the request they serve
    batches,
    \* history
    nextId,      \* number of Publish calls accepted so far, plus one
    nOps,        \* number of Subscribe and Unsubscribe calls so far
    used,        \* how many of the topic, callback and argument names are in use
    dequeued,    \* ids in the order processRequests dequeued them
    unsubbed,    \* <<topic, callback>> unsubscribed and not subscribed since
    \* NameService fields
    passive,             \* ns.Config().Passive
    graph,               \* ns.graph is registered
    quit,                \* the service's quit channel is closed
    trustedNameFilter,   \* names seen with a trusted tag
    otherNameFilter,     \* names seen with any other tag
    filter,              \* the service's own StringFilter: names already put
                         \* out in passive mode (ns.filter) or queried (a.filter)
    inbox,               \* the DNSRequest inbox of the service
    times,               \* ns.times: the queue of timesRequests
    \* NameService goroutines
    nsPc,                \* processRequests: "off" | "select" | "paused" | "done"
    timesPc,             \* processTimesRequests: "off" | "run" | "done"
    loops,               \* goroutines OnStart started that have not returned
    subdomains,          \* processTimesRequests: subdomain -> count
    \* NameService history
    nPub,                \* Publish calls made on the service's topics
    published,           \* what the service published, in order
    nnLog,               \* the calls of newNameEvent that reached the filters
    sent,                \* what newNameEvent put into the inbox
    resLog,              \* the calls of Resolved, by request
    counts,              \* the counts processTimesRequests handed out
    \* the process
    panicked,            \* a panic has taken the process down
    \* a service (BaseService) and its processRequests goroutine
    service,             \* which service it is
    API,                 \* the service holds an API key
    loopPc,              \* processRequests: "off" | "select" | "paused" | "done"
    pause,               \* signals waiting in the pause channel
    resume,              \* signals waiting in the resume channel
    inboxes,             \* the four typed inboxes, by request kind
    handled              \* history: the requests processRequests took, and
                         \* whether a crawl was started for each

busVars == <<topics, queue, max, maxCap, done, busPc, curIdx, p, callbacks, batches>>
histVars == <<nextId, dequeued, unsubbed>>
envVars == <<nOps, used, nPub>>
nsCtl == <<passive, graph, quit, nsPc, timesPc, loops>>
nsFilters == <<trustedNameFilter, otherNameFilter, filter>>
nsHist == <<published, nnLog, sent, resLog, counts>>
nsVars == <<nsCtl, nsFilters, inbox, times, subdomains, nsHist>>
loopVars == <<service, API, loopPc, pause, resume, inboxes, handled>>
svcVars == <<panicked, loopVars>>
vars == <<busVars, histVars, envVars, nsVars, svcVars>>

\* ---------------------------------------------------------------- helpers
Range(s) == {s[i] : i \in 1..Len(s)}

\* Unsubscribe's loop: the elements of s that are not c, in order.
RECURSIVE Without(_, _)
Without(s, c) ==
    IF s = <<>> THEN <<>>
    ELSE IF Head(s) = c THEN Without(Tail(s), c)
    ELSE <<Head(s)>> \o Without(Tail(s), c)

\* How many times c occurs in s.
RECURSIVE Count(_, _)
Count(s, c) ==
    IF s = <<>> THEN 0
    ELSE (IF Head(s) = c THEN 1 ELSE 0) + Count(Tail(s), c)

\* A removal that stops at the first match.
RECURSIVE WithoutFirst(_, _)
WithoutFirst(s, c) ==
    IF s = <<>> THEN <<>>
    ELSE IF Head(s) = c THEN Tail(s)
    ELSE <<Head(s)>> \o WithoutFirst(Tail(s), c)

IsPrefix(s, t) == Len(s) <= Len(t) /\ \A i \in 1..Len(s) : s[i] = t[i]

Drop(f, k) == [x \in DOMAIN f \ {k} |-> f[x]]

\* ------------------------------------------------------------- utils.Queue
QueueAppend(q, e) == Append(q, e)
QueueEmpty(q) == q = <<>>
QueueNext(q) == Head(q)
QueueRest(q) == Tail(q)

\* ---------------------------------------------------------------- EventBus
\* NewEventBus: an empty map, a free semaphore, an empty queue, an open done
\* channel, and the dispatch goroutine started.
InitBus(cap) ==
    /\ topics = <<>>
    /\ queue = <<>>
    /\ max = 0
    /\ maxCap = cap
    /\ done = FALSE
    /\ busPc = "select"
    /\ curIdx = 0
    /\ p = <<>>
    /\ callbacks = <<>>
    /\ batches = <<>>
    /\ nextId = 1
    /\ dequeued = <<>>
    /\ unsubbed = {}

Registered(t) == IF t \in DOMAIN topics THEN topics[t] ELSE <<>>

\* eb.topics[topic] = append(eb.topics[topic], callback)
SubscribeTo(tp, t, cb) ==
    [x \in DOMAIN tp \cup {t} |->
        IF x = t THEN Append(IF t \in DOMAIN tp THEN tp[t] ELSE <<>>, cb)
        ELSE tp[x]]

\* A request not yet snapshotted stops excluding cb once cb is subscribed.
Readmit(r, t, cb) ==
    IF r.Topic = t THEN [r EXCEPT !.excl = @ \ {cb}] ELSE r

\* eb.Subscribe(topic, fn), fn a function.
Subscribe(t, cb) ==
    /\ t # ""
    /\ topics' = SubscribeTo(topics, t, cb)
    /\ queue' = [i \in 1..Len(queue) |-> Readmit(queue[i], t, cb)]
    /\ p' = IF busPc = "lock" THEN <<Readmit(p[1], t, cb)>> ELSE p
    /\ unsubbed' = unsubbed \ {<<t, cb>>}
    /\ UNCHANGED <<max, maxCap, done, busPc, curIdx, callbacks, batches>>
    /\ UNCHANGED <<nextId, dequeued>>

\* An Unsubscribe that removes the first registration it finds and stops.
UnsubscribeFirst(t, cb) ==
    /\ t # ""
    /\ topics' = [x \in DOMAIN topics \cup {t} |->
                    IF x = t THEN WithoutFirst(Registered(t), cb) ELSE topics[x]]
    /\ unsubbed' = unsubbed \cup {<<t, cb>>}
    /\ UNCHANGED <<queue, max, maxCap, done, busPc, curIdx, p, callbacks, batches>>
    /\ UNCHANGED <<nextId, dequeued>>

\* eb.Unsubscribe(topic, fn), fn a function. The assignment creates the map
\* entry when the topic had none.
Unsubscribe(t, cb) ==
    /\ t # ""
    /\ topics' = [x \in DOMAIN topics \cup {t} |->
                    IF x = t THEN Without(Registered(t), cb) ELSE topics[x]]
    /\ unsubbed' = unsubbed \cup {<<t, cb>>}
    /\ UNCHANGED <<queue, max, maxCap, done, busPc, curIdx, p, callbacks, batches>>
    /\ UNCHANGED <<nextId, dequeued>>

\* What a caller can hand over as fn besides a function: a value that is no
\* function, and nil.
NotAFunc == "notafunc"
Nil == "nil"

\* reflect.TypeOf(fn).Kind() == reflect.Func
IsFunc(fn) == fn \in BusCallbacks

\* eb.Subscribe(topic, fn) with any arguments. An empty topic returns at
\* once; otherwise reflect.TypeOf(nil) is the nil Type and its Kind() is a
\* nil dereference, which panics.
SubscribeCall(t, fn) ==
    IF t = "" THEN UNCHANGED <<busVars, histVars, panicked>>
    ELSE IF fn = Nil THEN panicked' = TRUE /\ UNCHANGED <<busVars, histVars>>
    ELSE IF ~IsFunc(fn) THEN UNCHANGED <<busVars, histVars, panicked>>
    ELSE Subscribe(t, fn) /\ UNCHANGED panicked

\* eb.Unsubscribe(topic, fn) with any arguments: the same test.
UnsubscribeCall(t, fn) ==
    IF t = "" THEN UNCHANGED <<busVars, histVars, panicked>>
    ELSE IF fn = Nil THEN panicked' = TRUE /\ UNCHANGED <<busVars, histVars>>
    ELSE IF ~IsFunc(fn) THEN UNCHANGED <<busVars, histVars, panicked>>
    ELSE Unsubscribe(t, fn) /\ UNCHANGED panicked

\* The pubReq Publish builds; excl is history: the callbacks whose
\* Unsubscribe from the topic has returned when Publish is called.
PubReq(id, t, a) ==
    [id |-> id, Topic |-> t, Args |-> a,
     excl |-> {cb \in BusCallbacks : <<t, cb>> \in unsubbed}]

\* eb.queue.Append(&pubReq{Topic: topic, Args: passedArgs})
Enqueue(t, a) ==
    /\ queue' = QueueAppend(queue, PubReq(nextId, t, a))
    /\ nextId' = nextId + 1

\* A Publish that hands the request over only while the dispatch loop runs
\* and a semaphore slot is free.
PublishWaiting(t, a) ==
    /\ t # ""
    /\ busPc # "stopped"
    /\ max < maxCap
    /\ Enqueue(t, a)
    /\ UNCHANGED <<topics, max, maxCap, done, busPc, curIdx, p, callbacks, batches>>
    /\ UNCHANGED <<dequeued, unsubbed>>

\* eb.Publish(topic, args...): appends to the queue and returns.
Publish(t, a) ==
    /\ t # ""
    /\ Enqueue(t, a)
    /\ UNCHANGED <<topics, max, maxCap, done, busPc, curIdx, p, callbacks, batches>>
    /\ UNCHANGED <<dequeued, unsubbed>>

\* eb.Publish(topic, args...) with any topic.
PublishCall(t, a) ==
    IF t = "" THEN UNCHANGED <<busVars, histVars, panicked>>
    ELSE Publish(t, a) /\ UNCHANGED panicked

\* eb.Stop(): close(eb.done). A second close panics, so Stop acts once.
Stop ==
    /\ ~done
    /\ done' = TRUE
    /\ UNCHANGED <<topics, queue, max, maxCap, busPc, curIdx, p, callbacks, batches>>
    /\ UNCHANGED histVars

\* processRequests, case <-eb.done: return.
BusReturn ==
    /\ busPc = "select"
    /\ done
    /\ busPc' = "stopped"
    /\ UNCHANGED <<topics, queue, max, maxCap, done, curIdx, p, callbacks, batches>>
    /\ UNCHANGED histVars

\* processRequests, default branch on an empty queue: advance the backoff
\* index and sleep.
BusIdle ==
    /\ busPc = "select"
    /\ ~done
    /\ QueueEmpty(queue)
    /\ curIdx' = IF curIdx < maxIdx THEN curIdx + 1 ELSE curIdx
    /\ busPc' = "sleep"
    /\ UNCHANGED <<topics, queue, max, maxCap, done, p, callbacks, batches>>
    /\ UNCHANGED histVars

\* time.Sleep(delays[curIdx]) is over; continue.
BusWake ==
    /\ busPc = "sleep"
    /\ busPc' = "select"
    /\ UNCHANGED <<topics, queue, max, maxCap, done, curIdx, p, callbacks, batches>>
    /\ UNCHANGED histVars

\* A dequeue that takes the element appended last.
BusDequeueLast ==
    /\ busPc = "select"
    /\ ~done
    /\ ~QueueEmpty(queue)
    /\ curIdx' = 0
    /\ p' = <<queue[Len(queue)]>>
    /\ queue' = SubSeq(queue, 1, Len(queue) - 1)
    /\ busPc' = "lock"
    /\ dequeued' = Append(dequeued, queue[Len(queue)].id)
    /\ UNCHANGED <<topics, max, maxCap, done, callbacks, batches>>
    /\ UNCHANGED <<nextId, unsubbed>>

\* A dequeue that does not look at the done channel.
BusDequeueIgnoringDone ==
    /\ busPc = "select"
    /\ ~QueueEmpty(queue)
    /\ curIdx' = 0
    /\ p' = <<QueueNext(queue)>>
    /\ queue' = QueueRest(queue)
    /\ busPc' = "lock"
    /\ dequeued' = Append(dequeued, QueueNext(queue).id)
    /\ UNCHANGED <<topics, max, maxCap, done, callbacks, batches>>
    /\ UNCHANGED <<nextId, unsubbed>>

\* A dequeue that takes the head and loses the element behind it.
BusDequeueLosing ==
    /\ busPc = "select"
    /\ ~done
    /\ ~QueueEmpty(queue)
    /\ curIdx' = 0
    /\ p' = <<QueueNext(queue)>>
    /\ queue' = IF Len(queue) > 1 THEN QueueRest(QueueRest(queue)) ELSE <<>>
    /\ busPc' = "lock"
    /\ dequeued' = Append(dequeued, QueueNext(queue).id)
    /\ UNCHANGED <<topics, max, maxCap, done, callbacks, batches>>
    /\ UNCHANGED <<nextId, unsubbed>>

\* processRequests, default branch with an element: reset the backoff and
\* take the element.
BusDequeue ==
    /\ busPc = "select"
    /\ ~done
    /\ ~QueueEmpty(queue)
    /\ curIdx' = 0
    /\ p' = <<QueueNext(queue)>>
    /\ queue' = QueueRest(queue)
    /\ busPc' = "lock"
    /\ dequeued' = Append(dequeued, QueueNext(queue).id)
    /\ UNCHANGED <<topics, max, maxCap, done, callbacks, batches>>
    /\ UNCHANGED <<nextId, unsubbed>>

\* eb.Lock(); callbacks, found := eb.topics[p.Topic]; eb.Unlock()
BusSnapshot ==
    /\ busPc = "lock"
    /\ IF p[1].Topic \in DOMAIN topics
       THEN /\ callbacks' = topics[p[1].Topic]
            /\ busPc' = "acquire"
            /\ p' = p
       ELSE /\ callbacks' = <<>>
            /\ busPc' = "select"
            /\ p' = <<>>
    /\ UNCHANGED <<topics, queue, max, maxCap, done, curIdx, batches>>
    /\ UNCHANGED histVars

\* The goroutine `go eb.executeCallbacks(callbacks, p.Args)` starts as.
NewBatch(cbs, r) ==
    [cbs |-> cbs, args |-> r.Args, i |-> 1, st |-> "ready",
     \* history: the arguments as published, the callbacks excluded, and the
     \* invocations made so far
     pub |-> r.Args, excl |-> r.excl, log |-> <<>>,
     \* the locals of the callback that is running
     loc |-> <<>>]

\* eb.max.Acquire(1); go eb.executeCallbacks(callbacks, p.Args)
BusDispatch ==
    /\ busPc = "acquire"
    /\ max < maxCap
    /\ max' = max + 1
    /\ batches' = (p[1].id :> NewBatch(callbacks, p[1])) @@ batches
    /\ busPc' = "select"
    /\ p' = <<>>
    /\ callbacks' = <<>>
    /\ UNCHANGED <<topics, queue, maxCap, done, curIdx>>
    /\ UNCHANGED histVars

\* ------------------------------------------------- EventBus.executeCallbacks
\* cb.Call(args) of a callback that is not the NameService's: the call is
\* made; it later returns, or it never does (as Resolved does when it waits
\* in timesForSubdomain for a count nobody sends).
CallbackCall(id, blocks) ==
    /\ id \in DOMAIN batches
    /\ batches[id].st = "ready"
    /\ batches[id].i <= Len(batches[id].cbs)
    /\ batches[id].cbs[batches[id].i] \in BusCallbacks
    /\ batches' = [batches EXCEPT
                    ![id].st = IF blocks THEN "blocked" ELSE "incall",
                    ![id].log = Append(@, [cb |-> batches[id].cbs[batches[id].i],
                                           args |-> batches[id].args])]
    /\ UNCHANGED <<topics, queue, max, maxCap, done, busPc, curIdx, p, callbacks>>
    /\ UNCHANGED histVars

\* cb.Call(args) returns; the loop moves to the next callback.
CallbackReturn(id) ==
    /\ id \in DOMAIN batches
    /\ batches[id].st = "incall"
    /\ batches' = [batches EXCEPT ![id].st = "ready", ![id].i = @ + 1]
    /\ UNCHANGED <<topics, queue, max, maxCap, done, busPc, curIdx, p, callbacks>>
    /\ UNCHANGED histVars

\* An executeCallbacks that returns without releasing its slot.
BatchDoneKeepingSlot(id) ==
    /\ id \in DOMAIN batches
    /\ batches[id].st = "ready"
    /\ batches[id].i > Len(batches[id].cbs)
    /\ batches' = Drop(batches, id)
    /\ UNCHANGED <<topics, queue, max, maxCap, done, busPc, curIdx, p, callbacks>>
    /\ UNCHANGED histVars

\* The range loop is over: executeCallbacks returns and the deferred
\* eb.max.Release(1) runs.
BatchDone(id) ==
    /\ id \in DOMAIN batches
    /\ batches[id].st = "ready"
    /\ batches[id].i > Len(batches[id].cbs)
    /\ batches' = Drop(batches, id)
    /\ max' = max - 1
    /\ UNCHANGED <<topics, queue, maxCap, done, busPc, curIdx, p, callbacks>>
    /\ UNCHANGED histVars

\* ------------------------------------------------------------------ strings
\* strings.Split(s, "."): the runs between the separators; one run, the
\* string itself, when it holds no separator.
Split(s) ==
    LET seps == {i \in 1..Len(s) : s[i] = "."}
        n == Cardinality(seps) + 1
        \* where the k-th separator is; the ends of the string for 0 and n
        Sep(k) == IF k = 0 THEN 0
                  ELSE IF k = n THEN Len(s) + 1
                  ELSE CHOOSE i \in seps : Cardinality({j \in seps : j <= i}) = k
    IN [k \in 1..n |-> SubSeq(s, Sep(k - 1) + 1, Sep(k) - 1)]

\* The labels from the k-th on, with a separator between two of them.
RECURSIVE JoinFrom(_, _)
JoinFrom(labels, k) ==
    IF k > Len(labels) THEN <<>>
    ELSE IF k = Len(labels) THEN labels[k]
    ELSE labels[k] \o <<".">> \o JoinFrom(labels, k + 1)

\* strings.Join(labels, ".")
Join(labels) == JoinFrom(labels, 1)

\* The string whose labels are the given tokens.
Str(tokens) == Join([i \in 1..Len(tokens) |-> <<tokens[i]>>])

LowerToken(c) ==
    CASE c = "X" -> "x"
      [] c = "EXAMPLE" -> "example"
      [] c = "COM" -> "com"
      [] OTHER -> c

\* strings.ToLower
ToLower(s) == [i \in 1..Len(s) |-> LowerToken(s[i])]

\* utils.RemoveAsteriskLabel: strips a leading wildcard label.
RemoveAsteriskLabel(s) ==
    IF Len(s) >= 2 /\ s[1] = "*" /\ s[2] = "." THEN SubSeq(s, 3, Len(s)) ELSE s

\* TrustedTag: certificate extraction and zone transfer are trusted.
TrustedTag(tag) == tag \in {AXFR, CERT}

\* The configured root domains.
ConfigDomains == {Str(<<"example", "com">>)}

IsSuffix(s, t) == Len(s) <= Len(t) /\ SubSeq(t, Len(t) - Len(s) + 1, Len(t)) = s

\* Config.IsDomainInScope: a domain-suffix match against the root domains.
IsDomainInScope(name) ==
    \E d \in ConfigDomains : name = d \/ IsSuffix(<<".">> \o d, name)

\* ns.sanityRE.MatchString: the generic subdomain-label syntax check.
SanityMatch(name) ==
    LET labels == Split(name)
    IN /\ Len(labels) >= 2
       /\ \A i \in 1..Len(labels) : Len(labels[i]) = 1 /\ labels[i][1] # "*"

\* ------------------------------------------------------------- NameService
\* NewNameService: empty filters, an empty queue of timesRequests, no graph;
\* nothing runs before OnStart.
InitNS(psv) ==
    /\ passive = psv
    /\ graph = FALSE
    /\ quit = FALSE
    /\ trustedNameFilter = {}
    /\ otherNameFilter = {}
    /\ filter = {}
    /\ inbox = <<>>
    /\ times = <<>>
    /\ nsPc = "off"
    /\ timesPc = "off"
    /\ loops = [processRequests |-> 0, processTimesRequests |-> 0]
    /\ subdomains = <<>>
    /\ published = <<>>
    /\ nnLog = <<>>
    /\ sent = {}
    /\ resLog = <<>>
    /\ counts = <<>>

\* The bus fields the NameService's steps leave alone.
busRest == <<topics, max, maxCap, done, busPc, curIdx, p, callbacks>>

\* ns.OnStart(): subscribes newNameEvent and Resolved and starts the two
\* goroutines.
OnStart ==
    /\ topics' = SubscribeTo(SubscribeTo(topics, NewNameTopic, "newNameEvent"),
                             NameResolvedTopic, "Resolved")
    /\ nsPc' = "select"
    /\ timesPc' = "run"
    /\ loops' = [processRequests |-> loops.processRequests + 1,
                 processTimesRequests |-> loops.processTimesRequests + 1]
    /\ UNCHANGED <<queue, max, maxCap, done, busPc, curIdx, p, callbacks, batches>>
    /\ UNCHANGED histVars
    /\ UNCHANGED <<passive, graph, quit, nsFilters, inbox, times, subdomains, nsHist>>

\* ns.RegisterGraph(graph)
RegisterGraph ==
    /\ graph' = TRUE
    /\ UNCHANGED <<busVars, histVars>>
    /\ UNCHANGED <<passive, quit, nsPc, timesPc, loops, nsFilters, inbox, times,
                   subdomains, nsHist>>

\* The service is stopped: its quit channel is closed.
Quit ==
    /\ ~quit
    /\ quit' = TRUE
    /\ UNCHANGED <<busVars, histVars>>
    /\ UNCHANGED <<passive, graph, nsPc, timesPc, loops, nsFilters, inbox, times,
                   subdomains, nsHist>>

\* executeCallbacks is about to call the callback cb for request id.
Ready(id, cb) ==
    /\ id \in DOMAIN batches
    /\ batches[id].st = "ready"
    /\ batches[id].i <= Len(batches[id].cbs)
    /\ batches[id].cbs[batches[id].i] = cb

\* cb.Call(args) is made.
Called(b) == [b EXCEPT !.log = Append(@, [cb |-> b.cbs[b.i], args |-> b.args])]

\* cb.Call(args) has returned.
Advance(b) == [b EXCEPT !.st = "ready", !.i = @ + 1, !.loc = <<>>]

\* A check that looks in both filters, whatever the tag.
IsDuplicateAnyClass(tt, name) ==
    name \in otherNameFilter \cup trustedNameFilter

\* newNameEvent: the filter that decides is the one of the tag's trust class.
IsDuplicate(tt, name) ==
    \/ ~tt /\ name \in otherNameFilter
    \/ tt /\ name \in trustedNameFilter

\* newNameEvent up to its filter: rejects an empty name or domain, rewrites
\* the request's Name and Domain in place, and stops on a duplicate.
\* StringFilter.Duplicate tests and inserts at once.
NewNameEvent(id) ==
    /\ Ready(id, "newNameEvent")
    /\ \E b \in {Called(batches[id])} :
       \E req \in {b.args[1]} :
       \E name \in {ToLower(RemoveAsteriskLabel(req.Name))} :
       LET nreq == [req EXCEPT !.Name = name, !.Domain = ToLower(req.Domain)]
           tt == TrustedTag(req.Tag)
           dup == IsDuplicate(tt, name)
           seen == [b EXCEPT !.args = <<nreq>>]
       IN IF req.Name = <<>> \/ req.Domain = <<>>
          THEN /\ batches' = [batches EXCEPT ![id] = Advance(b)]
               /\ UNCHANGED <<trustedNameFilter, otherNameFilter, nnLog>>
          ELSE /\ trustedNameFilter' =
                     IF tt THEN trustedNameFilter \cup {name} ELSE trustedNameFilter
               /\ otherNameFilter' =
                     IF tt THEN otherNameFilter ELSE otherNameFilter \cup {name}
               /\ batches' = [batches EXCEPT ![id] =
                     IF dup THEN Advance(seen) ELSE [seen EXCEPT !.st = "send"]]
               /\ nnLog' = Append(nnLog, [id |-> id, name |-> name,
                                          trusted |-> tt, fwd |-> ~dup])
    /\ UNCHANGED <<busRest, queue, histVars>>
    /\ UNCHANGED <<nsCtl, filter, inbox, times, subdomains>>
    /\ UNCHANGED <<published, sent, resLog, counts>>

\* newNameEvent, ns.SendDNSRequest(req): the request enters the inbox.
SendDNSRequest(id) ==
    /\ id \in DOMAIN batches
    /\ batches[id].st = "send"
    /\ inbox' = Append(inbox, [req |-> batches[id].args[1], origin |-> id])
    /\ sent' = sent \cup {[id |-> id, name |-> batches[id].args[1].Name,
                            trusted |-> TrustedTag(batches[id].args[1].Tag)]}
    /\ batches' = [batches EXCEPT ![id] = Advance(@)]
    /\ UNCHANGED <<busRest, queue, histVars>>
    /\ UNCHANGED <<nsCtl, nsFilters, times, subdomains>>
    /\ UNCHANGED <<published, nnLog, resLog, counts>>

\* An Output that keeps the name and loses where it came from.
OutputUnattributed(req) ==
    [Name |-> req.Name, Domain |-> req.Domain, Tag |-> "", Source |-> ""]

\* What performRequest publishes for a request in passive mode.
Output(req) ==
    [Name |-> req.Name, Domain |-> req.Domain, Tag |-> req.Tag,
     Source |-> req.Source]

\* A performRequest that does not ask ns.filter in passive mode.
PerformRequestUnfiltered ==
    /\ nsPc = "select"
    /\ inbox # <<>>
    /\ \E req \in {Head(inbox).req} :
       \E out \in {~passive \/ SanityMatch(req.Name)} :
       LET topic == IF passive THEN OutputTopic ELSE ResolveNameTopic
           ev == IF passive THEN Output(req) ELSE req
       IN /\ filter' = IF passive THEN filter \cup {req.Name} ELSE filter
          /\ queue' = IF out THEN QueueAppend(queue, PubReq(nextId, topic, <<ev>>))
                      ELSE queue
          /\ nextId' = IF out THEN nextId + 1 ELSE nextId
          /\ published' = IF out
                THEN Append(published, [topic |-> topic, ev |-> ev, count |-> 0,
                                        origin |-> Head(inbox).origin])
                ELSE published
    /\ inbox' = Tail(inbox)
    /\ UNCHANGED <<busRest, batches, dequeued, unsubbed>>
    /\ UNCHANGED <<nsCtl, trustedNameFilter, otherNameFilter, times, subdomains>>
    /\ UNCHANGED <<nnLog, sent, resLog, counts>>

\* A performRequest that republishes for resolution whatever the mode.
PerformRequestResolving ==
    /\ nsPc = "select"
    /\ inbox # <<>>
    /\ queue' = QueueAppend(queue, PubReq(nextId, ResolveNameTopic, <<Head(inbox).req>>))
    /\ nextId' = nextId + 1
    /\ published' = Append(published,
          [topic |-> ResolveNameTopic, ev |-> Head(inbox).req, count |-> 0,
           origin |-> Head(inbox).origin])
    /\ inbox' = Tail(inbox)
    /\ UNCHANGED <<busRest, batches, dequeued, unsubbed>>
    /\ UNCHANGED <<nsCtl, nsFilters, times, subdomains>>
    /\ UNCHANGED <<nnLog, sent, resLog, counts>>

\* processRequests, case req := <-ns.DNSRequestChan(): performRequest(req).
PerformRequest ==
    /\ nsPc = "select"
    /\ inbox # <<>>
    /\ \E req \in {Head(inbox).req} :
       \E out \in {~passive \/ (req.Name \notin filter /\ SanityMatch(req.Name))} :
       LET topic == IF passive THEN OutputTopic ELSE ResolveNameTopic
           ev == IF passive THEN Output(req) ELSE req
       IN /\ filter' = IF passive THEN filter \cup {req.Name} ELSE filter
          /\ queue' = IF out THEN QueueAppend(queue, PubReq(nextId, topic, <<ev>>))
                      ELSE queue
          /\ nextId' = IF out THEN nextId + 1 ELSE nextId
          /\ published' = IF out
                THEN Append(published, [topic |-> topic, ev |-> ev, count |-> 0,
                                        origin |-> Head(inbox).origin])
                ELSE published
    /\ inbox' = Tail(inbox)
    /\ UNCHANGED <<busRest, batches, dequeued, unsubbed>>
    /\ UNCHANGED <<nsCtl, trustedNameFilter, otherNameFilter, times, subdomains>>
    /\ UNCHANGED <<nnLog, sent, resLog, counts>>

\* processRequests, case <-ns.Quit(): return. nsPc stays at the select while
\* another processRequests goroutine is there.
NSReturn ==
    /\ nsPc = "select"
    /\ quit
    /\ nsPc' = IF loops.processRequests > 1 THEN "select" ELSE "done"
    /\ loops' = [loops EXCEPT !.processRequests = @ - 1]
    /\ UNCHANGED <<busVars, histVars>>
    /\ UNCHANGED <<passive, graph, quit, timesPc, nsFilters, inbox, times,
                   subdomains, nsHist>>

\* What the pause case of ns.processRequests leaves alone.
nsPauseRest == <<busVars, histVars, envVars, passive, graph, quit, timesPc, loops,
                 nsFilters, inbox, times, subdomains, nsHist, panicked, service,
                 API, loopPc, inboxes, handled>>

\* processRequests, case <-ns.PauseChan(): the loop goes on to
\* <-ns.ResumeChan().
NSPause ==
    /\ nsPc = "select"
    /\ pause > 0
    /\ pause' = pause - 1
    /\ nsPc' = "paused"
    /\ UNCHANGED <<nsPauseRest, resume>>

\* processRequests, <-ns.ResumeChan() receives.
NSResume ==
    /\ nsPc = "paused"
    /\ resume > 0
    /\ resume' = resume - 1
    /\ nsPc' = "select"
    /\ UNCHANGED <<nsPauseRest, pause>>

ServicePrefixes == {<<"_tcp">>, <<"_udp">>, <<"_tls">>}

\* A check of the leading label in place of the second.
CheckSubdomainLeading(req) ==
    LET labels == Split(req.Name)
        num == Len(labels)
    IN IF num < 2 THEN <<>>
       ELSE IF num - 1 < Len(Split(req.Domain)) THEN <<>>
       ELSE IF labels[1] \in ServicePrefixes THEN <<>>
       ELSE <<Join(Tail(labels))>>

\* A check that lets the service-record prefixes through.
CheckSubdomainAnyLabel(req) ==
    LET labels == Split(req.Name)
        num == Len(labels)
    IN IF num < 2 THEN <<>>
       ELSE IF num - 1 < Len(Split(req.Domain)) THEN <<>>
       ELSE <<Join(Tail(labels))>>

\* checkSubdomain up to the graph: <<the candidate subdomain>>, or <<>>
\* when the name is dropped. labels[1] of the code is the second label.
CheckSubdomain(req) ==
    LET labels == Split(req.Name)
        num == Len(labels)
    IN IF num < 2 THEN <<>>
       ELSE IF num - 1 < Len(Split(req.Domain)) THEN <<>>
       ELSE IF labels[2] \in ServicePrefixes THEN <<>>
       ELSE <<Join(Tail(labels))>>

\* A service that never asks the graph.
IsAliasNever(cname) == FALSE

\* The graph's answer decides: a registered graph that reports the
\* candidate as a CNAME node stops the promotion.
IsAlias(cname) == graph /\ cname

\* Resolved and checkSubdomain up to timesForSubdomain's ns.times.Append;
\* cname is the answer of ns.graph.IsCNAMENode for the candidate.
Resolved(id, cname) ==
    /\ Ready(id, "Resolved")
    /\ \E b \in {Called(batches[id])} :
       \E req \in {b.args[1]} :
       \E cand \in {IF IsDomainInScope(req.Name) THEN CheckSubdomain(req) ELSE <<>>} :
       LET asked == graph /\ cand # <<>>
           promoted == cand # <<>> /\ ~IsAlias(cname)
       IN /\ asked \/ ~cname
          /\ resLog' = (id :> [req |-> req, cand |-> cand, asked |-> asked,
                               cname |-> cname, promoted |-> promoted]) @@ resLog
          /\ IF promoted
             THEN /\ times' = QueueAppend(times, [Subdomain |-> cand[1], caller |-> id])
                  /\ batches' = [batches EXCEPT ![id] =
                        [b EXCEPT !.st = "times", !.loc = [sub |-> cand[1], count |-> 0]]]
             ELSE /\ batches' = [batches EXCEPT ![id] = Advance(b)]
                  /\ UNCHANGED times
    /\ UNCHANGED <<busRest, queue, histVars>>
    /\ UNCHANGED <<nsCtl, nsFilters, inbox, subdomains>>
    /\ UNCHANGED <<published, nnLog, sent, counts>>

\* A counter that adds two for a subdomain seen before.
NextCountSkipping(sub) ==
    IF sub \in DOMAIN subdomains THEN subdomains[sub] + 2 ELSE 1

\* A counter that reads the stored count and does not add to it.
NextCountStale(sub) ==
    IF sub \in DOMAIN subdomains THEN subdomains[sub] ELSE 1

\* processTimesRequests: the count of a subdomain seen before is one more
\* than its last, that of a new one is 1.
NextCount(sub) ==
    IF sub \in DOMAIN subdomains THEN subdomains[sub] + 1 ELSE 1

\* processTimesRequests, default branch with an element: count the
\* subdomain and send the count to the caller waiting in timesForSubdomain.
TimesServe ==
    /\ timesPc = "run"
    /\ ~quit
    /\ ~QueueEmpty(times)
    /\ \E req \in {QueueNext(times)} :
       \E n \in {NextCount(req.Subdomain)} :
          /\ subdomains' = (req.Subdomain :> n) @@ subdomains
          /\ counts' = Append(counts, [sub |-> req.Subdomain, n |-> n,
                                       caller |-> req.caller])
          /\ batches' = [batches EXCEPT ![req.caller].st = "count",
                                        ![req.caller].loc.count = n]
    /\ times' = QueueRest(times)
    /\ UNCHANGED <<busRest, queue, histVars>>
    /\ UNCHANGED <<nsCtl, nsFilters, inbox>>
    /\ UNCHANGED <<published, nnLog, sent, resLog>>

\* processTimesRequests, case <-ns.Quit(): return. timesPc stays at the
\* select while another processTimesRequests goroutine is there.
TimesReturn ==
    /\ timesPc = "run"
    /\ quit
    /\ timesPc' = IF loops.processTimesRequests > 1 THEN "run" ELSE "done"
    /\ loops' = [loops EXCEPT !.processTimesRequests = @ - 1]
    /\ UNCHANGED <<busVars, histVars>>
    /\ UNCHANGED <<passive, graph, quit, nsPc, nsFilters, inbox, times,
                   subdomains, nsHist>>

\* checkSubdomain, after timesForSubdomain returned: publish the candidate
\* with its count; Resolved returns.
ResolvedPublish(id) ==
    /\ id \in DOMAIN batches
    /\ batches[id].st = "count"
    /\ \E b \in {batches[id]} :
       \E req \in {b.args[1]} :
       LET ev == [Name |-> b.loc.sub, Domain |-> req.Domain, Tag |-> req.Tag,
                  Source |-> req.Source]
       IN /\ Enqueue(NewSubdomainTopic, <<ev, b.loc.count>>)
          /\ published' = Append(published,
                [topic |-> NewSubdomainTopic, ev |-> ev, count |-> b.loc.count,
                 origin |-> id])
          /\ batches' = [batches EXCEPT ![id] = Advance(b)]
    /\ UNCHANGED <<busRest, dequeued, unsubbed>>
    /\ UNCHANGED <<nsCtl, nsFilters, inbox, times, subdomains>>
    /\ UNCHANGED <<nnLog, sent, resLog, counts>>

\* ---------------------------------------------------------------- services
\* The request kinds, one typed inbox each: DNSRequestChan, AddrRequestChan,
\* ASNRequestChan, WhoisRequestChan.
Kinds == {"DNS", "Addr", "ASN", "Whois"}

\* core.NewBaseService: nothing signalled, the inboxes empty; the loop is
\* not running before OnStart.
InitSvc(s, key) ==
    /\ panicked = FALSE
    /\ service = s
    /\ API = key
    /\ loopPc = "off"
    /\ pause = 0
    /\ resume = 0
    /\ inboxes = [k \in Kinds |-> <<>>]
    /\ handled = <<>>

\* ------------------------------------------------------- bus specification
\* The names a call may use: those in use and the first unused one.
Usable(names, n) == {names[i] : i \in 1..(IF n < Len(names) THEN n + 1 ELSE n)}
Mark(names, n, x) == IF n < Len(names) /\ x = names[n + 1] THEN n + 1 ELSE n

InitEnv ==
    /\ nOps = 0
    /\ nPub = 0
    /\ used = [t |-> 0, c |-> 0, a |-> 0]

Init ==
    /\ InitBus(MaxSlots)
    /\ InitEnv
    /\ InitNS(FALSE)
    /\ InitSvc("", FALSE)

\* The callers of the bus.
EnvSubscribe ==
    /\ nOps < MaxOps
    /\ \E t \in Usable(TopicNames, used.t), cb \in Usable(CallbackNames, used.c) :
          /\ Subscribe(t, cb)
          /\ used' = [used EXCEPT !.t = Mark(TopicNames, @, t),
                                  !.c = Mark(CallbackNames, @, cb)]
    /\ nOps' = nOps + 1
    /\ UNCHANGED <<nPub, nsVars, svcVars>>

EnvUnsubscribe ==
    /\ nOps < MaxOps
    /\ \E t \in Usable(TopicNames, used.t), cb \in Usable(CallbackNames, used.c) :
          /\ Unsubscribe(t, cb)
          /\ used' = [used EXCEPT !.t = Mark(TopicNames, @, t),
                                  !.c = Mark(CallbackNames, @, cb)]
    /\ nOps' = nOps + 1
    /\ UNCHANGED <<nPub, nsVars, svcVars>>

EnvPublish ==
    /\ nextId <= MaxPub
    /\ \E t \in Usable(TopicNames, used.t), a \in Usable(ArgNames, used.a) :
          /\ Publish(t, <<a>>)
          /\ used' = [used EXCEPT !.t = Mark(TopicNames, @, t),
                                  !.a = Mark(ArgNames, @, a)]
    /\ UNCHANGED <<nOps, nPub, nsVars, svcVars>>

EnvStop == Stop /\ UNCHANGED <<envVars, nsVars, svcVars>>

\* The dispatch goroutine.
BusLoop ==
    /\ \/ BusReturn
       \/ BusIdle
       \/ BusWake
       \/ BusDequeue
       \/ BusSnapshot
       \/ BusDispatch
    /\ UNCHANGED <<envVars, nsVars, svcVars>>

Batches ==
    /\ \/ \E id \in DOMAIN batches, blocks \in BOOLEAN : CallbackCall(id, blocks)
       \/ \E id \in DOMAIN batches : CallbackReturn(id)
       \/ \E id \in DOMAIN batches : BatchDone(id)
    /\ UNCHANGED <<envVars, nsVars, svcVars>>

Next ==
    \/ EnvSubscribe
    \/ EnvUnsubscribe
    \/ EnvPublish
    \/ EnvStop
    \/ BusLoop
    \/ Batches

Spec == Init /\ [][Next]_vars

\* The scheduler runs the dispatch goroutine whenever it can take a step.
SpecFair == Spec /\ WF_vars(BusLoop)

\* --------------------------------------------- bus calls with any arguments
\* The topics and the fn values a caller may pass, valid or not.
CallTopics == Usable(TopicNames, used.t) \cup {""}
CallFns == Usable(CallbackNames, used.c) \cup {NotAFunc, Nil}

CallSubscribe ==
    /\ ~panicked
    /\ nOps < MaxOps
    /\ \E t \in CallTopics, fn \in CallFns :
          /\ SubscribeCall(t, fn)
          /\ used' = [used EXCEPT !.t = Mark(TopicNames, @, t),
                                  !.c = Mark(CallbackNames, @, fn)]
    /\ nOps' = nOps + 1
    /\ UNCHANGED <<nPub, nsVars, loopVars>>

CallUnsubscribe ==
    /\ ~panicked
    /\ nOps < MaxOps
    /\ \E t \in CallTopics, fn \in CallFns :
          /\ UnsubscribeCall(t, fn)
          /\ used' = [used EXCEPT !.t = Mark(TopicNames, @, t),
                                  !.c = Mark(CallbackNames, @, fn)]
    /\ nOps' = nOps + 1
    /\ UNCHANGED <<nPub, nsVars, loopVars>>

CallPublish ==
    /\ ~panicked
    /\ nPub < MaxPub
    /\ \E t \in CallTopics, a \in Usable(ArgNames, used.a) :
          /\ PublishCall(t, <<a>>)
          /\ used' = [used EXCEPT !.t = Mark(TopicNames, @, t),
                                  !.a = Mark(ArgNames, @, a)]
    /\ nPub' = nPub + 1
    /\ UNCHANGED <<nOps, nsVars, loopVars>>

\* The goroutines of the bus, while the process lives.
CallsDispatch ==
    /\ ~panicked
    /\ BusLoop \/ Batches

NextCalls ==
    \/ CallSubscribe
    \/ CallUnsubscribe
    \/ CallPublish
    \/ CallsDispatch

SpecCalls == Init /\ [][NextCalls]_vars

\* ------------------------------------------------ NameService specification
DNSRequest(name, domain, tag) ==
    [Name |-> Str(name), Domain |-> Str(domain), Tag |-> tag, Source |-> "src"]

\* The requests connectors publish on the new-name topic.
NewNameInputs ==
    {DNSRequest(<<"x", "example", "com">>, <<"example", "com">>, SCRAPE),
     DNSRequest(<<"x", "example", "com">>, <<"example", "com">>, CERT),
     DNSRequest(<<"X", "EXAMPLE", "COM">>, <<"EXAMPLE", "COM">>, SCRAPE),
     DNSRequest(<<"*", "x", "example", "com">>, <<"example", "com">>, AXFR),
     DNSRequest(<<>>, <<"example", "com">>, SCRAPE)}

\* The requests the resolver publishes on the name-resolved topic.
ResolvedInputs ==
    {DNSRequest(<<"www", "foo", "example", "com">>, <<"example", "com">>, SCRAPE),
     DNSRequest(<<"ftp", "foo", "example", "com">>, <<"example", "com">>, CERT),
     DNSRequest(<<"www", "example", "com">>, <<"example", "com">>, SCRAPE),
     DNSRequest(<<"_tcp", "example", "com">>, <<"example", "com">>, SCRAPE),
     DNSRequest(<<"x", "_tcp", "example", "com">>, <<"example", "com">>, SCRAPE),
     DNSRequest(<<"x", "_udp", "example", "com">>, <<"example", "com">>, SCRAPE),
     DNSRequest(<<"x", "_tls", "example", "com">>, <<"example", "com">>, SCRAPE),
     DNSRequest(<<"example", "com">>, <<"example", "com">>, SCRAPE),
     DNSRequest(<<"www", "other", "org">>, <<"other", "org">>, SCRAPE)}

InitNameService ==
    /\ InitBus(MaxPub + 1)
    /\ InitEnv
    /\ \E psv \in BOOLEAN : InitNS(psv)
    /\ InitSvc("NameService", FALSE)

EnvOnStart ==
    /\ nsPc = "off"
    /\ OnStart
    /\ UNCHANGED <<envVars, svcVars>>

EnvRegisterGraph ==
    /\ ~graph
    /\ nsPc = "off"
    /\ RegisterGraph
    /\ UNCHANGED <<envVars, svcVars>>

EnvQuit ==
    /\ nsPc # "off"
    /\ Quit
    /\ UNCHANGED <<envVars, svcVars>>

EnvNewName ==
    /\ nPub < MaxPub
    /\ \E req \in NewNameInputs : Publish(NewNameTopic, <<req>>)
    /\ nPub' = nPub + 1
    /\ UNCHANGED <<nOps, used, nsVars, svcVars>>

EnvResolved ==
    /\ nPub < MaxPub
    /\ \E req \in ResolvedInputs : Publish(NameResolvedTopic, <<req>>)
    /\ nPub' = nPub + 1
    /\ UNCHANGED <<nOps, used, nsVars, svcVars>>

\* The dispatch goroutine of the service's bus.
BusCycle ==
    /\ \/ BusDequeue
       \/ BusSnapshot
       \/ BusDispatch
    /\ UNCHANGED <<envVars, nsVars, svcVars>>

\* The executeCallbacks goroutines: the service's callbacks.
NSCallbacks ==
    /\ \/ \E id \in DOMAIN batches : NewNameEvent(id)
       \/ \E id \in DOMAIN batches : SendDNSRequest(id)
       \/ \E id \in DOMAIN batches, cname \in BOOLEAN : Resolved(id, cname)
       \/ \E id \in DOMAIN batches : ResolvedPublish(id)
       \/ \E id \in DOMAIN batches :
             BatchDone(id) /\ UNCHANGED nsVars
    /\ UNCHANGED <<envVars, svcVars>>

\* ns.processRequests
NSLoop ==
    /\ \/ PerformRequest
       \/ NSReturn
    /\ UNCHANGED <<envVars, svcVars>>

\* ns.processTimesRequests
TimesLoop ==
    /\ \/ TimesServe
       \/ TimesReturn
    /\ UNCHANGED <<envVars, svcVars>>

NextNS ==
    \/ EnvOnStart
    \/ EnvRegisterGraph
    \/ EnvQuit
    \/ EnvNewName
    \/ EnvResolved
    \/ BusCycle
    \/ NSCallbacks
    \/ NSLoop
    \/ TimesLoop

SpecNS == InitNameService /\ [][NextNS]_vars

\* ------------------------------------- NameService, whatever is published
\* What a producer may publish on the new-name topic: the requests above, a
\* name with a wildcard label that is not the leading one, and a name under
\* a domain that is not its root.
AnyNameInputs ==
    NewNameInputs \cup
    {DNSRequest(<<"x", "*", "example", "com">>, <<"example", "com">>, SCRAPE),
     DNSRequest(<<"x", "example", "com">>, <<"other", "org">>, SCRAPE)}

\* What a producer may publish on the name-resolved topic.
AnyResolvedInputs ==
    {DNSRequest(<<"www", "foo", "example", "com">>, <<"example", "com">>, SCRAPE),
     DNSRequest(<<"www", "foo", "example", "com">>, <<"EXAMPLE", "COM">>, SCRAPE),
     DNSRequest(<<"www", "foo", "example", "com">>, <<"other", "org">>, SCRAPE)}

EnvAnyName ==
    /\ nPub < MaxPub
    /\ \E req \in AnyNameInputs : Publish(NewNameTopic, <<req>>)
    /\ nPub' = nPub + 1
    /\ UNCHANGED <<nOps, used, nsVars, svcVars>>

EnvAnyResolved ==
    /\ nPub < MaxPub
    /\ \E req \in AnyResolvedInputs : Publish(NameResolvedTopic, <<req>>)
    /\ nPub' = nPub + 1
    /\ UNCHANGED <<nOps, used, nsVars, svcVars>>

NextNSAny ==
    \/ EnvOnStart
    \/ EnvQuit
    \/ EnvAnyName
    \/ EnvAnyResolved
    \/ BusCycle
    \/ NSCallbacks
    \/ NSLoop
    \/ TimesLoop

SpecNSAny == InitNameService /\ [][NextNSAny]_vars

\* ------------------------------------------- NameService, paused and resumed
\* BaseService.Pause: a signal for the pause channel of the service.
EnvPause ==
    /\ nsPc # "off"
    /\ pause < MaxSignals
    /\ pause' = pause + 1
    /\ UNCHANGED <<busVars, histVars, envVars, nsVars>>
    /\ UNCHANGED <<panicked, service, API, loopPc, resume, inboxes, handled>>

\* BaseService.Resume: a signal for the resume channel of the service.
EnvResume ==
    /\ nsPc # "off"
    /\ resume < MaxSignals
    /\ resume' = resume + 1
    /\ UNCHANGED <<busVars, histVars, envVars, nsVars>>
    /\ UNCHANGED <<panicked, service, API, loopPc, pause, inboxes, handled>>

\* ns.processRequests with its pause case.
NSLoopPausable ==
    /\ UNCHANGED panicked
    /\ \/ NSLoop
       \/ NSPause
       \/ NSResume

NextNSPause ==
    \/ EnvOnStart
    \/ EnvQuit
    \/ EnvPause
    \/ EnvResume
    \/ EnvNewName
    \/ EnvResolved
    \/ BusCycle
    \/ NSCallbacks
    \/ NSLoopPausable
    \/ TimesLoop

SpecNSPause == InitNameService /\ [][NextNSPause]_vars

\* -------------------------------------------------- OnStart called again
\* How often OnStart has subscribed newNameEvent.
Starts == Count(Registered(NewNameTopic), "newNameEvent")

\* A caller of OnStart, whether the service was started before or not.
CallOnStart ==
    /\ Starts < MaxStarts
    /\ OnStart
    /\ UNCHANGED <<envVars, svcVars>>

\* The executeCallbacks goroutines: newNameEvent, once per registration.
NewNameCallbacks ==
    /\ \/ \E id \in DOMAIN batches : NewNameEvent(id)
       \/ \E id \in DOMAIN batches : SendDNSRequest(id)
       \/ \E id \in DOMAIN batches :
             BatchDone(id) /\ UNCHANGED nsVars
    /\ UNCHANGED <<envVars, svcVars>>

\* The processTimesRequests goroutines; no name is resolved here, so they
\* find ns.times empty until they return.
TimesQuit ==
    /\ TimesReturn
    /\ UNCHANGED <<envVars, svcVars>>

NextRestart ==
    \/ CallOnStart
    \/ EnvQuit
    \/ EnvNewName
    \/ BusCycle
    \/ NewNameCallbacks
    \/ NSLoop
    \/ TimesQuit

SpecRestart == InitNameService /\ [][NextRestart]_vars

\* ------------------------------------------- the processRequests goroutines
Services == {"NameService", "ActiveCertService", "Arquivo", "ArchiveIt",
             "LoCArchive", "DNSTable", "Umbrella"}

\* The web-archive connectors: the same loop and the same executeQuery.
Archives == {"Arquivo", "ArchiveIt", "LoCArchive"}

\* The services whose select has `case <-PauseChan(): <-ResumeChan()`.
HasPauseCase(s) == s \in {"NameService", "ActiveCertService"}

\* The requests put into the inboxes: one in scope, one out of scope, one
\* in scope without a domain.
SvcRequests ==
    {DNSRequest(<<"www", "example", "com">>, <<"example", "com">>, SCRAPE),
     DNSRequest(<<"www", "other", "org">>, <<"other", "org">>, SCRAPE),
     DNSRequest(<<"www", "example", "com">>, <<>>, SCRAPE)}

\* A name a query found for the domain.
Found(domain) ==
    [topic |-> NewNameTopic,
     ev |-> [Name |-> Str(<<"found">>) \o <<".">> \o domain, Domain |-> domain,
             Tag |-> "api", Source |-> service]]

\* What a query over the network yields: nothing, or one event.
Query(event) == {<<>>, <<event>>}

\* An executeDNSQuery that goes on without an API key.
ExecuteDNSQueryKeyless(domain) == Query(Found(domain))

\* Umbrella.executeDNSQuery: returns at once without an API key; with one,
\* publishes the names the queries find.
ExecuteDNSQuery(domain) ==
    IF ~API THEN {<<>>} ELSE Query(Found(domain))

\* Umbrella.executeWhoisQuery: returns at once without an API key; with
\* one, publishes the new domains the reverse whois finds, if any.
ExecuteWhoisQuery(domain) ==
    IF ~API THEN {<<>>}
    ELSE Query([topic |-> NewWhoisTopic,
                ev |-> [Domain |-> domain, Tag |-> "api", Source |-> service]])

\* An executeQuery that does not ask the filter.
StartsCrawlAgain(sn, domain) == sn # <<>> /\ domain # <<>>

\* executeQuery of an archive connector gets past its first test, `sn == ""
\* || domain == "" || a.filter.Duplicate(sn)`, and crawls.
StartsCrawl(sn, domain) == sn # <<>> /\ domain # <<>> /\ sn \notin filter

\* Arquivo, ArchiveIt, LoCArchive executeQuery: publishes the names the
\* crawl finds, if it crawls.
ExecuteQuery(sn, domain) ==
    IF StartsCrawl(sn, domain) THEN Query(Found(domain)) ELSE {<<>>}

\* The loop calls executeQuery for the request.
Queries(kind, req) ==
    service \in Archives /\ kind = "DNS" /\ IsDomainInScope(req.Name)

\* Handling the request starts a crawl.
Crawled(kind, req) == Queries(kind, req) /\ StartsCrawl(req.Name, req.Domain)

\* The names a.filter.Duplicate is asked for, and so holds afterwards: the
\* test is reached with a name and a domain that are not empty.
Remembered(kind, req) ==
    IF Queries(kind, req) /\ req.Name # <<>> /\ req.Domain # <<>>
    THEN {req.Name} ELSE {}

\* The events the select case of the inbox makes the service publish for
\* the request it took, by service.
Handle(kind, req) ==
    CASE service = "NameService" /\ kind = "DNS" ->
            {<<[topic |-> ResolveNameTopic, ev |-> req]>>}
      [] service = "ActiveCertService" /\ kind = "Addr" ->
            Query(Found(req.Domain))
      [] service \in Archives /\ kind = "DNS" ->
            IF IsDomainInScope(req.Name) THEN ExecuteQuery(req.Name, req.Domain)
            ELSE {<<>>}
      [] service = "DNSTable" /\ kind = "DNS" ->
            IF IsDomainInScope(req.Domain) THEN Query(Found(req.Domain)) ELSE {<<>>}
      [] service = "Umbrella" /\ kind = "DNS" ->
            IF IsDomainInScope(req.Domain) THEN ExecuteDNSQuery(req.Domain) ELSE {<<>>}
      [] service = "Umbrella" /\ kind = "Whois" ->
            IF IsDomainInScope(req.Domain) THEN ExecuteWhoisQuery(req.Domain) ELSE {<<>>}
      [] OTHER -> {<<>>}

\* What the loop's steps leave alone.
loopRest == <<topics, max, maxCap, done, busPc, curIdx, p, callbacks, batches,
              dequeued, unsubbed, envVars, nsCtl, trustedNameFilter,
              otherNameFilter, inbox, times, subdomains, nsHist, panicked,
              service, API>>

\* processRequests, case <-PauseChan(): the loop goes on to <-ResumeChan().
LoopPause ==
    /\ loopPc = "select"
    /\ HasPauseCase(service)
    /\ pause > 0
    /\ pause' = pause - 1
    /\ loopPc' = "paused"
    /\ UNCHANGED <<loopRest, filter, queue, nextId, resume, inboxes, handled>>

\* processRequests, <-ResumeChan() receives.
LoopResume ==
    /\ loopPc = "paused"
    /\ resume > 0
    /\ resume' = resume - 1
    /\ loopPc' = "select"
    /\ UNCHANGED <<loopRest, filter, queue, nextId, pause, inboxes, handled>>

\* processRequests, case <-Quit(): return.
LoopQuit ==
    /\ loopPc = "select"
    /\ quit
    /\ loopPc' = "done"
    /\ UNCHANGED <<loopRest, filter, queue, nextId, pause, resume, inboxes, handled>>

\* processRequests, the case of an inbox: the request is taken and handled;
\* what the handler publishes goes to the bus.
LoopTake(kind) ==
    /\ loopPc = "select"
    /\ inboxes[kind] # <<>>
    /\ \E req \in {Head(inboxes[kind])} :
       \E evs \in Handle(kind, req) :
          /\ queue' = queue \o [i \in 1..Len(evs) |->
                                  PubReq(nextId + i - 1, evs[i].topic, <<evs[i].ev>>)]
          /\ nextId' = nextId + Len(evs)
          /\ handled' = Append(handled, [kind |-> kind, req |-> req,
                                         quit |-> quit, events |-> Len(evs),
                                         crawl |-> Crawled(kind, req)])
          /\ filter' = filter \cup Remembered(kind, req)
    /\ inboxes' = [inboxes EXCEPT ![kind] = Tail(@)]
    /\ UNCHANGED <<loopRest, loopPc, pause, resume>>

\* What the callers of a service leave alone.
svcRest == <<busVars, histVars, envVars, nsVars, panicked, service, API>>

\* OnStart: go processRequests().
SvcOnStart ==
    /\ loopPc = "off"
    /\ loopPc' = "select"
    /\ UNCHANGED <<svcRest, pause, resume, inboxes, handled>>

\* BaseService.Pause: a signal for the pause channel.
SvcPause ==
    /\ loopPc # "off"
    /\ pause < MaxSignals
    /\ pause' = pause + 1
    /\ UNCHANGED <<svcRest, loopPc, resume, inboxes, handled>>

\* BaseService.Resume: a signal for the resume channel.
SvcResume ==
    /\ loopPc # "off"
    /\ resume < MaxSignals
    /\ resume' = resume + 1
    /\ UNCHANGED <<svcRest, loopPc, pause, inboxes, handled>>

\* BaseService.Stop: the quit channel is closed.
SvcQuit ==
    /\ loopPc # "off"
    /\ Quit
    /\ UNCHANGED <<envVars, svcVars>>

\* The requests waiting in the inboxes and those taken.
Requests ==
    Len(handled) + Len(inboxes["DNS"]) + Len(inboxes["Addr"])
                 + Len(inboxes["ASN"]) + Len(inboxes["Whois"])

\* SendDNSRequest, SendAddrRequest, SendASNRequest, SendWhoisRequest.
SvcSend ==
    /\ Requests < MaxReq
    /\ \E kind \in Kinds, req \in SvcRequests :
          inboxes' = [inboxes EXCEPT ![kind] = Append(@, req)]
    /\ UNCHANGED <<svcRest, loopPc, pause, resume, handled>>

\* The processRequests goroutine of the service, while the process lives.
Loop ==
    /\ ~panicked
    /\ \/ LoopPause
       \/ LoopResume
       \/ LoopQuit
       \/ \E kind \in Kinds : LoopTake(kind)

InitLoop ==
    /\ InitBus(MaxReq + 1)
    /\ InitEnv
    /\ InitNS(FALSE)
    /\ \E s \in Services, key \in BOOLEAN :
          /\ key => s = "Umbrella"
          /\ InitSvc(s, key)

NextLoop ==
    \/ SvcOnStart
    \/ SvcPause
    \/ SvcResume
    \/ SvcQuit
    \/ SvcSend
    \/ Loop

SpecLoop == InitLoop /\ [][NextLoop]_vars

\* ------------------------------------------------------ EventBus properties
TopicSet == Range(TopicNames)
ArgSet == Range(ArgNames)

\* What the batch of request id must have invoked, in order, once it is over.
Expected(id) ==
    [k \in 1..Len(batches[id].cbs) |->
        [cb |-> batches[id].cbs[k], args |-> batches[id].pub]]

\* C1: every callback of the snapshot taken for a dequeued request is invoked
\* exactly once with the published arguments, k times when registered k
\* times, and no callback outside the snapshot is invoked: the invocations
\* made follow the snapshot, and no batch comes to rest with a callback of
\* its snapshot left uninvoked.
C1_SnapshotDelivered ==
    \A id \in DOMAIN batches :
        /\ IsPrefix(batches[id].log, Expected(id))
        /\ batches[id].st = "blocked" => Len(batches[id].log) = Len(batches[id].cbs)

\* C2, first half: a request published after Unsubscribe(T, cb) returned and
\* before cb is subscribed to T again never has cb invoked.
C2_NoneAfterUnsubscribe ==
    \A id \in DOMAIN batches :
        \A k \in 1..Len(batches[id].log) :
            batches[id].log[k].cb \notin batches[id].excl

\* C2, second half: one Unsubscribe(T, cb) leaves no registration of cb on T,
\* keeps the other callbacks of T as often and in the order they were, and
\* keeps every other topic.
C2_UnsubscribeStep ==
    \A t \in TopicSet, cb \in BusCallbacks :
        Unsubscribe(t, cb) =>
            /\ Count(topics'[t], cb) = 0
            /\ \A c \in BusCallbacks \ {cb} :
                  Count(topics'[t], c) = Count(Registered(t), c)
            /\ \A i, j \in 1..Len(topics'[t]) :
                  i < j => \E k, l \in 1..Len(Registered(t)) :
                              /\ k < l
                              /\ Registered(t)[k] = topics'[t][i]
                              /\ Registered(t)[l] = topics'[t][j]
            /\ \A x \in DOMAIN topics' \ {t} :
                  x \in DOMAIN topics /\ topics'[x] = topics[x]
            /\ DOMAIN topics \subseteq DOMAIN topics'

\* C2: after Unsubscribe(T, cb) returns, no later Publish(T) invokes cb until
\* cb is subscribed again; one Unsubscribe removes every registration of cb
\* on T and leaves the other callbacks of T and the other topics unchanged.
C2_Unsubscribe == []C2_NoneAfterUnsubscribe /\ [][C2_UnsubscribeStep]_vars

\* C2's case: a callback was unsubscribed from T, and a request published
\* afterwards has been delivered to a callback T still holds.
C2_Witness ==
    \E id \in DOMAIN batches :
        /\ batches[id].excl # {}
        /\ batches[id].log # <<>>

\* C3: in every reachable state Publish on a non-empty topic can complete:
\* nothing the dispatch loop, the semaphore or a callback does disables it.
C3_PublishNeverBlocks ==
    \A t \in TopicSet, a \in ArgSet : ENABLED Publish(t, <<a>>)

\* C3's case: the loop has stopped, the semaphore is exhausted by a callback
\* that never returns, and a request sits in the queue.
C3_Witness ==
    /\ busPc = "stopped"
    /\ max = maxCap
    /\ \E id \in DOMAIN batches : batches[id].st = "blocked"
    /\ queue # <<>>

QueueIds == [i \in 1..Len(queue) |-> queue[i].id]

C4_NothingDiscarded ==
    dequeued \o QueueIds = [i \in 1..(nextId - 1) |-> i]

Queued(id) == id \in Range(QueueIds)
DequeuedOrStopped(id) == id \in Range(dequeued) \/ done

Running == BusCycle \/ NSCallbacks \/ NSLoop \/ TimesLoop

\* The scheduler does not stop while a goroutine can take a step.
SpecNSFair == SpecNS /\ WF_vars(Running)

SamePair(a, b) == a.name = b.name /\ a.trusted = b.trusted

\* C5: for each pair (normalized name, trust class) exactly the first call of
\* newNameEvent forwards the request to the inbox and every later call with
\* the pair forwards nothing; the same name under the other trust class is
\* still forwarded, once.
C5_FirstPerTrustClass ==
    /\ \A i \in 1..Len(nnLog) :
          nnLog[i].fwd = (\A j \in 1..(i - 1) : ~SamePair(nnLog[j], nnLog[i]))
    /\ \A m \in sent :
          /\ \A n \in sent : SamePair(m, n) => m = n
          /\ \E i \in 1..Len(nnLog) :
                nnLog[i].fwd /\ nnLog[i].id = m.id /\ SamePair(nnLog[i], m)
    /\ \A i \in 1..Len(nnLog) :
          nnLog[i].fwd =>
              \/ \E m \in sent : m.id = nnLog[i].id
              \/ nnLog[i].id \in DOMAIN batches /\ batches[nnLog[i].id].st = "send"

\* C5's case: a name came twice in one trust class, under two spellings; the
\* first call put it into the inbox and the second was dropped.
C5_Witness ==
    /\ Len(nnLog) = 2
    /\ SamePair(nnLog[1], nnLog[2])
    /\ ~nnLog[2].fwd
    /\ Cardinality(sent) = 1
    /\ batches = <<>>

\* How many of the first i counts handed out were for the subdomain sub.
Handed(sub, i) == Cardinality({j \in 1..i : counts[j].sub = sub})

\* C6: the k-th promotion of a subdomain string receives the count k, so N
\* promotions of one string receive 1..N, each once, whether their callers
\* overlap or not, and the counts of another string play no part; the count
\* a caller publishes is the one handed to it.
C6_CountsAreOneToN ==
    /\ \A i \in 1..Len(counts) : counts[i].n = Handed(counts[i].sub, i)
    /\ \A i, j \in 1..Len(counts) :
          counts[i].caller = counts[j].caller => i = j
    /\ \A k \in 1..Len(published) :
          published[k].topic = NewSubdomainTopic =>
              \E i \in 1..Len(counts) :
                  /\ counts[i].caller = published[k].origin
                  /\ counts[i].sub = published[k].ev.Name
                  /\ counts[i].n = published[k].count
    /\ \A id \in DOMAIN batches :
          batches[id].st = "count" =>
              \E i \in 1..Len(counts) :
                  /\ counts[i].caller = id
                  /\ counts[i].sub = batches[id].loc.sub
                  /\ counts[i].n = batches[id].loc.count

\* C6's case: two callers waited in timesForSubdomain for the same subdomain
\* at once and hold the counts 1 and 2.
C6_Witness ==
    /\ Len(counts) = 2
    /\ counts[1].sub = counts[2].sub
    /\ \A i \in 1..2 :
          /\ counts[i].caller \in DOMAIN batches
          /\ batches[counts[i].caller].st = "count"

\* The new-subdomain events published for the Resolved call of request id.
NewSubs(id) ==
    {k \in 1..Len(published) :
        published[k].topic = NewSubdomainTopic /\ published[k].origin = id}

\* The Resolved call of request id has returned.
Returned(id) == id \notin DOMAIN batches \/ batches[id].st = "ready"

Labels(s) == Split(s)

\* The conditions of C7 on the request and the graph's answer.
Derivable(r) ==
    /\ Len(Labels(r.req.Name)) >= 2
    /\ Len(Labels(r.req.Name)) - 1 >= Len(Labels(r.req.Domain))
    /\ Labels(r.req.Name)[2] \notin {<<"_tcp">>, <<"_udp">>, <<"_tls">>}
    /\ ~(r.asked /\ r.cname)

\* C7: a Resolved call on an in-scope name publishes a new-subdomain event
\* if and only if the name has 2 labels or more, one label less than the
\* name is no fewer than the labels of the domain, the second label is no
\* service-record prefix, and the graph does not report the candidate as a
\* CNAME node; the event carries the name without its first label, and the
\* request's Domain, Tag and Source. A call that has returned has published
\* it; a call on a name out of scope publishes none.
C7_SubdomainDerivation ==
    \A id \in DOMAIN resLog :
        LET r == resLog[id]
        IN /\ Cardinality(NewSubs(id)) <= 1
           /\ NewSubs(id) # {} => IsDomainInScope(r.req.Name) /\ Derivable(r)
           /\ IsDomainInScope(r.req.Name) /\ Derivable(r) /\ Returned(id)
                 => NewSubs(id) # {}
           /\ \A k \in NewSubs(id) :
                 /\ published[k].ev.Name = Join(Tail(Labels(r.req.Name)))
                 /\ published[k].ev.Domain = r.req.Domain
                 /\ published[k].ev.Tag = r.req.Tag
                 /\ published[k].ev.Source = r.req.Source

\* C7's case: www.foo.example.com was resolved and foo.example.com published.
C7_Witness ==
    \E id \in DOMAIN resLog :
        /\ resLog[id].req.Name = Str(<<"www", "foo", "example", "com">>)
        /\ Returned(id)
        /\ \E k \in NewSubs(id) :
              published[k].ev.Name = Str(<<"foo", "example", "com">>)

\* The count handed out for the Resolved call of request id, if any.
Counted(id) == {i \in 1..Len(counts) : counts[i].caller = id}

\* C8 as stated: an in-scope resolved name whose leading label is "_tcp",
\* "_udp" or "_tls" is never promoted: no new-subdomain event and no count.
C8_LeadingPrefixNeverPromoted ==
    \A id \in DOMAIN resLog :
        LET name == resLog[id].req.Name
        IN IsDomainInScope(name) /\ Labels(name)[1] \in ServicePrefixes
              => ~resLog[id].promoted /\ NewSubs(id) = {} /\ Counted(id) = {}

\* C8, amended: a resolved name whose second label is "_tcp", "_udp" or
\* "_tls" is never promoted: no new-subdomain event and no count. The
\* leading label is not looked at.
C8_SecondPrefixNeverPromoted ==
    \A id \in DOMAIN resLog :
        LET name == resLog[id].req.Name
        IN Len(Labels(name)) >= 2 /\ Labels(name)[2] \in ServicePrefixes
              => ~resLog[id].promoted /\ NewSubs(id) = {} /\ Counted(id) = {}

\* C8's case: Resolved has returned for x._tcp.example.com.
C8_Witness ==
    \E id \in DOMAIN resLog :
        /\ resLog[id].req.Name = Str(<<"x", "_tcp", "example", "com">>)
        /\ Returned(id)
        /\ timesPc = "run"

\* C9: when a graph is registered and reports the candidate as a CNAME node,
\* the Resolved call publishes no new-subdomain event and asks for no count.
C9_AliasSuppressed ==
    \A id \in DOMAIN resLog :
        graph /\ resLog[id].cand # <<>> /\ resLog[id].cname
            => /\ ~resLog[id].promoted
               /\ NewSubs(id) = {}
               /\ Counted(id) = {}
               /\ \A i \in 1..Len(times) : times[i].caller # id

\* C9's case: a derivable name was resolved, the graph said CNAME, and the
\* call returned.
C9_Witness ==
    \E id \in DOMAIN resLog :
        /\ graph
        /\ resLog[id].cand # <<>>
        /\ resLog[id].cname
        /\ Returned(id)

\* The request of the end-to-end scenario.
ScenarioRequest ==
    DNSRequest(<<"x", "example", "com">>, <<"example", "com">>, SCRAPE)

\* What the service published for the new-name request id.
Events(id) ==
    {k \in 1..Len(published) :
        published[k].topic # NewSubdomainTopic /\ published[k].origin = id}

\* Request id is the scenario's, accepted by a started service's bus.
Scenario(id) ==
    /\ nsPc = "select"
    /\ \E i \in 1..Len(queue) :
          /\ queue[i].id = id
          /\ queue[i].Topic = NewNameTopic
          /\ queue[i].Args = <<ScenarioRequest>>

\* Another new-name request with the scenario's name reached the filters.
Rival(id) ==
    \E i \in 1..Len(nnLog) :
        nnLog[i].id # id /\ nnLog[i].name = ScenarioRequest.Name

\* The one event the scenario ends with.
OneEvent(id) ==
    /\ Cardinality(Events(id)) = 1
    /\ \A k \in Events(id) :
          /\ published[k].topic = (IF passive THEN OutputTopic ELSE ResolveNameTopic)
          /\ published[k].ev.Name = ScenarioRequest.Name
          /\ published[k].ev.Domain = ScenarioRequest.Domain
          /\ published[k].ev.Tag = ScenarioRequest.Tag
          /\ published[k].ev.Source = ScenarioRequest.Source

\* The scenario is over: its event is out, or the service was told to quit,
\* or the name was published a second time.
Ended(id) == OneEvent(id) \/ quit \/ Rival(id)

\* No request makes the service publish twice, and what it publishes for the
\* scenario's request is the scenario's event.
C10_AtMostOneEvent ==
    \A id \in 1..(nextId - 1) :
        /\ Cardinality(Events(id)) <= 1
        /\ \A i \in 1..Len(nnLog) :
              nnLog[i].id = id /\ nnLog[i].name = ScenarioRequest.Name
              /\ ~nnLog[i].trusted /\ Events(id) # {}
                  => OneEvent(id)

\* C10: with the service started, the publish of x.example.com (domain
\* example.com, tag scrape) on the new-name topic leads to exactly one event
\* of the service, an Output in passive mode and a resolve-name request in
\* active mode, with the request's Name, Domain, Tag and Source - unless the
\* service is told to quit or the name is published a second time.
C10_EndToEnd ==
    /\ []C10_AtMostOneEvent
    /\ \A id \in 1..MaxPub : Scenario(id) ~> Ended(id)

\* C10's case: the scenario's request was the only one of its name and the
\* service, not told to quit, has published its event.
C10_Witness ==
    \E id \in 1..MaxPub :
        /\ OneEvent(id)
        /\ ~quit
        /\ ~Rival(id)
        /\ \E i \in 1..Len(nnLog) : nnLog[i].id = id

\* The events performRequest published on the topic for the request id.
Republished(id, topic) ==
    {k \in 1..Len(published) :
        published[k].topic = topic /\ published[k].origin = id}

\* The request id was put into the inbox and performRequest has taken it.
Performed(id) ==
    /\ \E m \in sent : m.id = id
    /\ \A i \in 1..Len(inbox) : inbox[i].origin # id

\* C11: in passive mode the service publishes nothing on the resolve-name
\* topic, whatever names come in; in active mode it publishes no Output, and
\* every request it accepted into its inbox is republished on the
\* resolve-name topic once, as it was accepted, when performRequest has run
\* for it and never before.
C11_ModeSeparation ==
    /\ passive =>
          /\ \A k \in 1..Len(published) : published[k].topic # ResolveNameTopic
          /\ \A i \in 1..Len(queue) : queue[i].Topic # ResolveNameTopic
    /\ ~passive =>
          /\ \A k \in 1..Len(published) : published[k].topic # OutputTopic
          /\ \A i \in 1..Len(queue) : queue[i].Topic # OutputTopic
          /\ \A m \in sent :
                /\ Cardinality(Republished(m.id, ResolveNameTopic)) =
                      (IF Performed(m.id) THEN 1 ELSE 0)
                /\ \A k \in Republished(m.id, ResolveNameTopic) :
                      /\ published[k].ev.Name = m.name
                      /\ TrustedTag(published[k].ev.Tag) = m.trusted
          /\ \A k \in 1..Len(published) :
                published[k].topic = ResolveNameTopic =>
                    \E m \in sent : m.id = published[k].origin

\* C11's case: in active mode two requests were accepted and performRequest
\* has republished both.
C11_Witness ==
    /\ ~passive
    /\ Cardinality(sent) = 2
    /\ \A m \in sent :
          Performed(m.id) /\ Republished(m.id, ResolveNameTopic) # {}

\* What executeCallbacks does next for the batch of request id.
BatchStep(id) ==
    \/ \E blocks \in BOOLEAN : CallbackCall(id, blocks)
    \/ CallbackReturn(id)
    \/ BatchDone(id)

\* Stop cancels nothing and waits for nothing: it can be called whatever the
\* callbacks do, and a batch whose callback has not blocked for good can
\* take its next step whether Stop was called or not.
C12_NothingCancelled ==
    /\ ~done => ENABLED Stop
    /\ \A id \in DOMAIN batches :
          batches[id].st # "blocked" => ENABLED BatchStep(id)

\* Once Stop was called no cycle begins: nothing is dequeued, and the only
\* batch started is that of the request the loop had already dequeued; the
\* call of Stop itself leaves the batches as they are. The select of a cycle
\* and its queue.Next are one step (BusDequeue), so a Stop that falls
\* between the two is a Stop during the cycle, after that step.
C12_StopStep ==
    /\ done =>
          /\ dequeued' = dequeued
          /\ Len(queue') >= Len(queue)
          /\ DOMAIN batches' \subseteq
                DOMAIN batches \cup {p[i].id : i \in 1..Len(p)}
    /\ ~done /\ done' => batches' = batches

\* The dispatch loop has returned, or the cycle it was in waits for a slot.
LoopOver == busPc = "stopped" \/ (busPc = "acquire" /\ max = maxCap)

C13_NoSiblingHeldBack ==
    \A id \in DOMAIN batches :
        \A k \in 1..Len(batches[id].cbs) :
            k > batches[id].i => batches[id].st # "blocked"

\* A call of Subscribe or Unsubscribe that the bus is to ignore.
Invalid(t, fn) == t = "" \/ ~IsFunc(fn)

\* What a step that is an invalid call leaves as it was.
C14_InvalidCallStep ==
    /\ \A t \in TopicSet \cup {""}, fn \in BusCallbacks \cup {NotAFunc, Nil} :
          Invalid(t, fn) /\ (SubscribeCall(t, fn) \/ UnsubscribeCall(t, fn))
              => ~panicked' /\ topics' = topics /\ queue' = queue
    /\ \A a \in ArgSet :
          PublishCall("", <<a>>)
              => ~panicked' /\ topics' = topics /\ queue' = queue

\* C14: Subscribe and Unsubscribe with an empty topic or with an fn that is
\* no function, nil included, and Publish with an empty topic return
\* without a panic and leave the subscriber map and the queue as they were.
C14_DefensiveNoOps == [][C14_InvalidCallStep]_vars

\* C15: however often OnStart is called, each callback of the service is
\* registered at most once on its topic, and at most one processRequests and
\* one processTimesRequests goroutine run.
C15_StartedOnce ==
    /\ Count(Registered(NewNameTopic), "newNameEvent") <= 1
    /\ Count(Registered(NameResolvedTopic), "Resolved") <= 1
    /\ loops.processRequests <= 1
    /\ loops.processTimesRequests <= 1

\* The loop is suspended: in its select, or waiting for the resume signal.
Suspended == loopPc \in {"select", "paused"}

\* C16: the loop checks the quit signal wherever it suspends: once the
\* signal is raised a suspended loop can return, also when it is waiting for
\* the resume signal.
C16_QuitWherever ==
    quit /\ Suspended => ENABLED LoopQuit

\* C17: a pause signal sent to a service is received by its loop, whichever
\* service it is, and a loop that received it takes no request before it has
\* received the resume signal.
C17_PauseWhicheverService ==
    /\ loopPc = "select" /\ pause > 0 => ENABLED LoopPause
    /\ loopPc = "paused" => \A kind \in Kinds : ~ENABLED LoopTake(kind)

\* C19: Umbrella started without an API key publishes nothing, whatever
\* requests come in, and its loop, once started, stands in its select, where
\* it can take the request at the head of each of the four inboxes, until it
\* returns on quit.
C19_DegradedWithoutKey ==
    service = "Umbrella" /\ ~API =>
        /\ ~panicked
        /\ queue = <<>> /\ nextId = 1
        /\ \A i \in 1..Len(handled) : handled[i].events = 0
        /\ loopPc \in {"off", "select", "done"}
        /\ loopPc = "done" => quit
        /\ loopPc = "select" =>
              \A kind \in Kinds : inboxes[kind] # <<>> => ENABLED LoopTake(kind)

\* C19's case: Umbrella without a key has taken a DNS request and a WHOIS
\* request for a domain in scope and stands in its select again.
C19_Witness ==
    /\ service = "Umbrella"
    /\ ~API
    /\ loopPc = "select"
    /\ ~quit
    /\ Len(handled) = 2
    /\ {handled[1].kind, handled[2].kind} = {"DNS", "Whois"}
    /\ \A i \in 1..2 : IsDomainInScope(handled[i].req.Domain)

\* C18: the request the callbacks of a publish are called with holds, after
\* any of them has run, what it held when it was published.
C18_RequestAsPublished ==
    \A id \in DOMAIN batches : batches[id].args = batches[id].pub

\* The slots acquired are those of the executeCallbacks runs that were
\* started and have not returned, and they are no more than the capacity.
C20_SlotPerBatch ==
    /\ max = Cardinality(DOMAIN batches)
    /\ max <= maxCap

\* A slot is acquired by the step that starts a batch and released by the
\* step in which a batch returns, one slot each, and a batch returns only
\* when all callbacks of its snapshot were called and have returned.
C20_SlotStep ==
    /\ max' > max =>
          /\ max' = max + 1
          /\ \E id \in DOMAIN batches' \ DOMAIN batches :
                DOMAIN batches' = DOMAIN batches \cup {id}
    /\ max' < max =>
          /\ max' = max - 1
          /\ \E id \in DOMAIN batches \ DOMAIN batches' :
                DOMAIN batches = DOMAIN batches' \cup {id}
    /\ \A id \in DOMAIN batches \ DOMAIN batches' :
          /\ max' = max - 1
          /\ batches[id].st = "ready"
          /\ batches[id].i > Len(batches[id].cbs)
          /\ Len(batches[id].log) = Len(batches[id].cbs)

C21_NoSlotWithoutSubscriber ==
    /\ busPc = "acquire" => callbacks # <<>>
    /\ \A id \in DOMAIN batches : batches[id].cbs # <<>>

\* The requests are dequeued in the order Publish appended them, the request
\* in the loop's hands is the one dequeued last, and so is every batch's
\* when it is started.
C22_InOrder ==
    /\ \A i \in 1..Len(dequeued) : dequeued[i] = i
    /\ \A i, j \in 1..Len(queue) : i < j => queue[i].id < queue[j].id
    /\ p # <<>> => dequeued # <<>> /\ p[1].id = dequeued[Len(dequeued)]
    /\ \A id \in DOMAIN batches : id \in Range(dequeued)

\* A snapshot is taken, and a batch started, for the request dequeued last.
C22_Step ==
    /\ callbacks' # callbacks /\ callbacks' # <<>> =>
          p # <<>> /\ p[1].id = dequeued[Len(dequeued)]
    /\ \A id \in DOMAIN batches' \ DOMAIN batches :
          /\ id = dequeued[Len(dequeued)]
          /\ \A other \in DOMAIN batches : other < id
          /\ batches'[id].cbs = callbacks
          /\ batches'[id].args = p[1].Args

\* C22: the dispatch loop dequeues the requests, takes their snapshots and
\* starts their batches in the order in which Publish enqueued them.
C22_FIFO ==
    /\ []C22_InOrder
    /\ [][C22_Step]_vars

\* C22's case: two requests were published and dequeued, and the batch of
\* the second is started.
C22_Witness ==
    /\ Len(dequeued) = 2
    /\ 2 \in DOMAIN batches
    /\ batches[2].cbs # <<>>

\* time.Sleep(delays[curIdx]): the delay of the sleep the loop is in; the
\* code counts the entries of delays from 0.
SleepDelay == delays[curIdx + 1]

\* C26: the k-th of a run of empty-queue checks sleeps for the k-th entry of
\* the schedule, the first for 10 ms, and from the last entry on for the
\* last; the index stays within the schedule.
C26_BackoffSchedule ==
    /\ curIdx \in 0..maxIdx
    /\ maxIdx + 1 = Len(delays)
    /\ busPc = "sleep" =>
          /\ SleepDelay <= delays[Len(delays)]
          /\ curIdx < maxIdx => SleepDelay = delays[curIdx]

\* The Output events published so far, by their place in the history.
Outputs == {i \in DOMAIN published : published[i].topic = OutputTopic}

\* C23: in passive mode at most one Output is published per normalized
\* name, under whichever trust classes the name was accepted, and only for
\* a name that passes the subdomain syntax check.
C23_OutputOncePerName ==
    passive =>
       /\ \A i \in Outputs :
             /\ SanityMatch(published[i].ev.Name)
             /\ published[i].ev.Name \in filter
             /\ \E e \in sent : e.id = published[i].origin
                                /\ e.name = published[i].ev.Name
       /\ \A i, j \in Outputs :
             published[i].ev.Name = published[j].ev.Name => i = j

\* C23's case: a name was accepted under both trust classes, both requests
\* were taken by performRequest, and one Output was published.
C23_Witness ==
    /\ passive
    /\ inbox = <<>>
    /\ \E a, b \in sent : a.name = b.name /\ a.trusted /\ ~b.trusted
    /\ Cardinality(Outputs) = 1

IsLower(s) == ToLower(s) = s

\* The domain is the name or a suffix of it after a separator.
RootOf(domain, name) == name = domain \/ IsSuffix(<<".">> \o domain, name)

Normalized(r) == IsLower(r.Name) /\ IsLower(r.Domain) /\ RootOf(r.Domain, r.Name)

\* C24: every request the service accepted and every event it published
\* has a lowercase Name and Domain, and the Domain is a root of the Name.
C24_NormalizedEverywhere ==
    /\ \A i \in DOMAIN inbox : Normalized(inbox[i].req)
    /\ \A i \in DOMAIN published : Normalized(published[i].ev)

\* The new-subdomain events published for a subdomain string, by their
\* place in the history.
SubEvents(sub) ==
    {i \in DOMAIN published : /\ published[i].topic = NewSubdomainTopic
                              /\ published[i].ev.Name = sub}

\* The callers that hold a count for the string and have not published it.
Holding(sub) ==
    {id \in DOMAIN batches : batches[id].st = "count" /\ batches[id].loc.sub = sub}

\* C27 as stated: the k-th new-subdomain event published for a subdomain
\* carries the count k.
C27_SuccessiveCounts ==
    \A i \in DOMAIN published :
       published[i].topic = NewSubdomainTopic =>
          published[i].count =
             Cardinality({j \in SubEvents(published[i].ev.Name) : j <= i})

\* C27: the stored count of a subdomain string is the number of counts
\* handed out for it, each of which is published in one new-subdomain event
\* or held by a caller about to publish it; the events of one string carry
\* different counts from 1 to the stored count; and a Resolved call that is
\* dropped is handed no count and publishes no event.
C27_OnePerPromotion ==
    /\ \A sub \in DOMAIN subdomains :
          /\ subdomains[sub] = Cardinality(SubEvents(sub)) + Cardinality(Holding(sub))
          /\ \A i \in SubEvents(sub) : published[i].count \in 1..subdomains[sub]
          /\ \A i, j \in SubEvents(sub) :
                published[i].count = published[j].count => i = j
          /\ \A id \in Holding(sub) :
                /\ batches[id].loc.count \in 1..subdomains[sub]
                /\ \A i \in SubEvents(sub) : published[i].count # batches[id].loc.count
    /\ \A i \in DOMAIN published :
          published[i].topic = NewSubdomainTopic =>
             published[i].ev.Name \in DOMAIN subdomains
    /\ \A id \in DOMAIN resLog :
          ~resLog[id].promoted =>
             /\ \A i \in DOMAIN counts : counts[i].caller # id
             /\ \A i \in DOMAIN published :
                   published[i].topic = NewSubdomainTopic => published[i].origin # id

\* A dropped Resolved call leaves the counters as they are.
C27_DroppedStep ==
    \A id \in DOMAIN resLog' \ DOMAIN resLog :
       ~resLog'[id].promoted => subdomains' = subdomains /\ times' = times

C27_CountPerEvent ==
    /\ []C27_OnePerPromotion
    /\ [][C27_DroppedStep]_vars

\* C27's case: two callers were promoted for one subdomain string, and the
\* one that holds the count 2 published before the one that holds the 1.
C27_Witness ==
    \E i, j \in DOMAIN published :
       /\ i < j
       /\ published[i].topic = NewSubdomainTopic
       /\ published[j].topic = NewSubdomainTopic
       /\ published[i].ev.Name = published[j].ev.Name
       /\ published[i].count = 2
       /\ published[j].count = 1

\* Some Resolved callback waits in timesForSubdomain for its count.
InTimesForSubdomain ==
    \E id \in DOMAIN batches : batches[id].st = "times"

NoneInTimesForSubdomain == ~InTimesForSubdomain

\* C28: a caller of timesForSubdomain receives its count and returns,
\* whatever state the service is in.
C28_CountReceived == InTimesForSubdomain ~> NoneInTimesForSubdomain

\* processRequests has received a pause signal and no resume signal since.
Paused == nsPc = "paused"

\* While the loop stays paused the service publishes nothing and its
\* filters and counters stay as they are.
C29_PausedStep ==
    Paused /\ Paused' =>
       /\ published' = published
       /\ nsFilters' = nsFilters
       /\ subdomains' = subdomains

\* C29: between the pause signal and the resume signal the NameService
\* publishes no event on any topic and changes no filter and no counter,
\* whatever is dispatched to its callbacks meanwhile.
C29_QuietWhilePaused == [][C29_PausedStep]_vars

\* The requests taken before the i-th for which a crawl was started.
CrawledBefore(i) == {j \in 1..(i - 1) : handled[j].crawl}

\* C25: an archive connector starts a crawl at most once per name, only for
\* a request from the DNS inbox whose name is in scope and not empty and
\* whose domain is not empty; for a name it has queried before it starts no
\* crawl and publishes nothing; and it publishes only after a crawl.
C25_CrawlOncePerName ==
    service \in Archives =>
       /\ \A i \in DOMAIN handled :
             /\ handled[i].crawl =>
                   /\ handled[i].kind = "DNS"
                   /\ handled[i].req.Name # <<>>
                   /\ handled[i].req.Domain # <<>>
                   /\ IsDomainInScope(handled[i].req.Name)
                   /\ \A j \in CrawledBefore(i) :
                         handled[j].req.Name # handled[i].req.Name
             /\ ~handled[i].crawl => handled[i].events = 0
       /\ \A i \in DOMAIN handled : handled[i].crawl => handled[i].req.Name \in filter
       /\ Len(queue) = nextId - 1
       /\ nextId - 1 <= Cardinality({i \in DOMAIN handled : handled[i].crawl})

\* C25's case: the connector crawled for a resolved name, published what the
\* crawl found, and then took a second resolved event for the same name.
C25_Witness ==
    /\ service \in Archives
    /\ Len(handled) = 2
    /\ handled[1].crawl /\ handled[1].events = 1
    /\ handled[2].kind = "DNS"
    /\ handled[2].req = handled[1].req
    /\ ~handled[2].crawl
    /\ Len(queue) = 1

====
